---- MODULE Spec2Model ----
(***************************************************************************)
(* Model of the emotion-classification notebook                            *)
(* src/enhanced_nlp_dataset-2.ipynb: read a CSV, clean each comment with   *)
(* preprocess_text, build TF-IDF features, split, fit MultinomialNB and a  *)
(* linear SVC, score both and print two result lines.                      *)
(*                                                                         *)
(* A text is a sequence of characters.  A printable ASCII character is the *)
(* one-character string that holds it, but for the double quote, the       *)
(* backslash and the backquote, written by their Unicode names; any other  *)
(* character is written "U+" and its code point, the ASCII controls that   *)
(* are whitespace by their short names.  The str operations are defined on *)
(* the characters of the set Characters and on no other.                   *)
(***************************************************************************)
EXTENDS Integers, Sequences, FiniteSets, TLC

VARIABLES
    pc,               \* the statement the run executes next
    file,             \* nlp_dataset.csv on disk: [exists, rows]
    dataset,          \* the DataFrame
    tfidf_vectorizer, \* the vectorizer; vocabulary_ and idf_ once fitted
    X, y,             \* feature matrix and label Series
    X_train, X_test, y_train, y_test,
    nb_model, svm_model,
    nb_predictions, nb_accuracy, nb_f1,
    svm_predictions, svm_accuracy, svm_f1,
    front_end,        \* what runs the cells: a kernel, a terminal or a script
    stdout,           \* what was written to sys.stdout so far, write by write
    stderr,           \* what was written to sys.stderr so far
    iopub,            \* the results and errors the kernel has published
    err,              \* the uncaught exception that ended the run, or None
    trace,            \* the statements executed so far, in order
    text, result      \* argument and return value of a preprocess_text call

vars == << pc, file, dataset, tfidf_vectorizer, X, y, X_train, X_test,
           y_train, y_test, nb_model, svm_model,
           nb_predictions, nb_accuracy, nb_f1,
           svm_predictions, svm_accuracy, svm_f1,
           front_end, stdout, stderr, iopub, err, trace, text, result >>

None == "None"
\* pandas' value for an empty CSV cell, a float and no str: written as a
\* sequence that holds one element that is no character
NaN == << "float nan" >>

(***************************************************************************)
(* Bounds of the model.                                                    *)
(***************************************************************************)
MaxLen == 5      \* longest text handed to a single preprocess_text call
MaxRows == 2     \* most rows of an enumerated small CSV file
Extra == 3       \* distinct terms of the large files beyond max_features

\* characters of the texts enumerated for a single preprocess_text call
Alphabet == {"t", "h", "e", "T", ".", " ", "U+00A0", "U+0130", "U+03A3", "U+2102"}

\* The function f, tabulated: every value is computed once, when the table
\* is built, and not again at each application.
Table(f) == f @@ << >>

(***************************************************************************)
(* Python's str and string module.                                         *)
(***************************************************************************)
Range(s) == { s[i] : i \in 1..Len(s) }

\* chr(32) .. chr(126) in order
ascii_printable ==
    << " ", "!", "QUOTATION MARK", "#", "$", "%", "&", "'", "(", ")", "*", "+", ",", "-", ".", "/",
       "0", "1", "2", "3", "4", "5", "6", "7", "8", "9", ":", ";", "<", "=", ">", "?",
       "@", "A", "B", "C", "D", "E", "F", "G", "H", "I", "J", "K", "L", "M", "N", "O",
       "P", "Q", "R", "S", "T", "U", "V", "W", "X", "Y", "Z", "[", "REVERSE SOLIDUS", "]", "^", "_",
       "GRAVE ACCENT", "a", "b", "c", "d", "e", "f", "g", "h", "i", "j", "k", "l", "m", "n", "o",
       "p", "q", "r", "s", "t", "u", "v", "w", "x", "y", "z", "{", "|", "}", "~" >>

\* the other characters of the model with their code points: the whitespace
\* characters but the space, and ten letters, digits and marks beyond ASCII
other_characters ==
    { << "TAB", 9 >>, << "LF", 10 >>, << "VT", 11 >>, << "FF", 12 >>, << "CR", 13 >>,
      << "U+001C", 28 >>, << "U+001D", 29 >>, << "U+001E", 30 >>, << "U+001F", 31 >>,
      << "U+0085", 133 >>, << "U+00A0", 160 >>, << "U+1680", 5760 >>,
      << "U+2000", 8192 >>, << "U+2001", 8193 >>, << "U+2002", 8194 >>,
      << "U+2003", 8195 >>, << "U+2004", 8196 >>, << "U+2005", 8197 >>,
      << "U+2006", 8198 >>, << "U+2007", 8199 >>, << "U+2008", 8200 >>,
      << "U+2009", 8201 >>, << "U+200A", 8202 >>, << "U+2028", 8232 >>,
      << "U+2029", 8233 >>, << "U+202F", 8239 >>, << "U+205F", 8287 >>,
      << "U+3000", 12288 >>,
      << "U+00B2", 178 >>,      \* SUPERSCRIPT TWO
      << "U+00C9", 201 >>,      \* LATIN CAPITAL LETTER E WITH ACUTE
      << "U+00E9", 233 >>,      \* LATIN SMALL LETTER E WITH ACUTE
      << "U+0130", 304 >>,      \* LATIN CAPITAL LETTER I WITH DOT ABOVE
      << "U+0307", 775 >>,      \* COMBINING DOT ABOVE
      << "U+03A3", 931 >>,      \* GREEK CAPITAL LETTER SIGMA
      << "U+03C2", 962 >>,      \* GREEK SMALL LETTER FINAL SIGMA
      << "U+03C3", 963 >>,      \* GREEK SMALL LETTER SIGMA
      << "U+0663", 1635 >>,     \* ARABIC-INDIC DIGIT THREE
      << "U+2102", 8450 >> }    \* DOUBLE-STRUCK CAPITAL C

\* the characters the str operations are defined on
Characters == Range(ascii_printable) \cup { p[1] : p \in other_characters }

code_point ==
    Table([ c \in Characters |->
              IF \E i \in 1..Len(ascii_printable) : ascii_printable[i] = c
              THEN 31 + (CHOOSE i \in 1..Len(ascii_printable) : ascii_printable[i] = c)
              ELSE (CHOOSE p \in other_characters : p[1] = c)[2] ])

\* ord(c), c one of Characters
ord(c) == code_point[c]

ascii_uppercase == << "A","B","C","D","E","F","G","H","I","J","K","L","M",
                      "N","O","P","Q","R","S","T","U","V","W","X","Y","Z" >>
ascii_lowercase == << "a","b","c","d","e","f","g","h","i","j","k","l","m",
                      "n","o","p","q","r","s","t","u","v","w","x","y","z" >>

\* string.punctuation
string_punctuation ==
    { "!", "QUOTATION MARK", "#", "$", "%", "&", "'", "(", ")", "*", "+", ",", "-", ".",
      "/", ":", ";", "<", "=", ">", "?", "@", "[", "REVERSE SOLIDUS", "]", "^", "_", "GRAVE ACCENT",
      "{", "|", "}", "~" }

\* the code points of the 29 characters for which str.isspace() is true
whitespace_code_points ==
    (9..13) \cup (28..32) \cup {133, 160, 5760} \cup (8192..8202)
        \cup {8232, 8233, 8239, 8287, 12288}

\* str.isspace() on one character: the characters str.split() separates on
isspace(c) == ord(c) \in whitespace_code_points

\* the code points of the Characters for which str.isupper() is true
uppercase_code_points == (65..90) \cup {201, 304, 931, 8450}

\* str.isupper() on one character
isupper(c) == ord(c) \in uppercase_code_points

\* the code points of the Characters that are cased: the letters
cased_code_points ==
    (65..90) \cup (97..122) \cup {201, 233, 304, 931, 962, 963, 8450}

\* the code points of the Characters that are case-ignorable:
\* ' . : ^ ` and the combining dot
case_ignorable_code_points == {39, 46, 58, 94, 96, 775}

\* whether the capital sigma at position i of s lowercases to the final
\* sigma: the nearest character before it that is not case-ignorable is
\* cased, and the nearest one after it, if any, is not
final_sigma(s, i) ==
    LET heeded(j) == ord(s[j]) \notin case_ignorable_code_points
        before == { j \in 1..(i - 1) : heeded(j) }
        after == { j \in (i + 1)..Len(s) : heeded(j) }
        last == CHOOSE j \in before : \A k \in before : k <= j
        first == CHOOSE j \in after : \A k \in after : j <= k
    IN  /\ before # {}
        /\ ord(s[last]) \in cased_code_points
        /\ after = {} \/ ord(s[first]) \notin cased_code_points

\* what str.lower() puts for the character at position i of s: one
\* character, or two for U+0130
lower_char(s, i) ==
    LET c == s[i]
    IN  CASE ord(c) \in 65..90 -> << ascii_lowercase[ord(c) - 64] >>
          [] c = "U+00C9" -> << "U+00E9" >>
          [] c = "U+0130" -> << "i", "U+0307" >>
          [] c = "U+03A3" -> IF final_sigma(s, i) THEN << "U+03C2" >> ELSE << "U+03C3" >>
          [] OTHER -> << c >>

\* sep.join(tokens[lo..hi])
RECURSIVE join_range(_, _, _, _)
join_range(sep, tokens, lo, hi) ==
    IF lo > hi THEN << >>
    ELSE IF lo = hi THEN tokens[lo]
    ELSE LET mid == (lo + hi) \div 2
         IN  join_range(sep, tokens, lo, mid) \o sep
                 \o join_range(sep, tokens, mid + 1, hi)

\* ' '.join(tokens)
join(tokens) == join_range(<< " " >>, tokens, 1, Len(tokens))

\* str.lower()
lower(s) ==
    join_range(<< >>, Table([ i \in 1..Len(s) |-> lower_char(s, i) ]), 1, Len(s))

NotPunctuation(c) == c \notin string_punctuation

\* s.translate(str.maketrans('', '', string.punctuation))
translate(s) == SelectSeq(s, NotPunctuation)

\* the maximal runs of s made of the characters at the positions keep, left
\* to right
Runs(s, keep) ==
    LET idx == [i \in 1..Len(s) |-> i]
        IsStart(i) == i \in keep /\ (i - 1) \notin keep
        IsEnd(i) == i \in keep /\ (i + 1) \notin keep
        starts == SelectSeq(idx, IsStart)
        ends == SelectSeq(idx, IsEnd)
    IN  Table([k \in 1..Len(starts) |-> SubSeq(s, starts[k], ends[k])])

\* str.split() with no argument: the runs of characters that are no whitespace
split(s) == Runs(s, { i \in 1..Len(s) : ~isspace(s[i]) })

\* the letters of the words whose membership in the stop list is modelled
stopword_letters == {"a", "c", "e", "h", "i", "t"}

\* sklearn.feature_extraction.text.ENGLISH_STOP_WORDS, the members that can
\* be spelled with the letters of stopword_letters
ENGLISH_STOP_WORDS ==
    { <<"a">>, <<"i">>, <<"a","t">>, <<"h","e">>, <<"i","e">>, <<"i","t">>,
      <<"t","h","e">>, <<"e","t","c">>, <<"t","h","a","t">>, <<"e","a","c","h">> }

\* word not in ENGLISH_STOP_WORDS.  Every member of the list is made of
\* the letters a-z, so a word that holds any other character is no member;
\* a word of letters a-z is decided when its letters are among
\* stopword_letters, and not otherwise
NotStopword(word) ==
    CASE \E k \in 1..Len(word) : ord(word[k]) \notin 97..122 -> TRUE
      [] Range(word) \subseteq stopword_letters -> word \notin ENGLISH_STOP_WORDS

\* list comprehension of line 54: drops the stopwords
RemoveStopwords(tokens) == SelectSeq(tokens, NotStopword)

\* preprocess_text with the stopword filter moved before punctuation removal
preprocess_text_stopwords_first(t) ==
    join(split(translate(join(RemoveStopwords(split(lower(t)))))))

\* def preprocess_text(text)
preprocess_text(t) ==
    LET lowered == lower(t)
        stripped == translate(lowered)
        tokens == split(stripped)
    IN  join(RemoveStopwords(tokens))

(***************************************************************************)
(* Input files.  A row is [Comment, Emotion]; Comment is a text, or NaN    *)
(* for an empty cell.                                                      *)
(***************************************************************************)
Emotions == << "anger", "fear", "joy" >>     \* in sorted order

TheCat == << "T","h","e"," ","c","a","t","!" >>      \* "The cat!"
HatAC == << "h","a","t"," ","a"," ","c" >>           \* "hat a c"
The == << "t","h","e" >>                             \* "the"
TeaHat == << "t","e","a"," ","h","a","t","." >>      \* "tea hat."

CommentPool == { TheCat, HatAC, The, NaN }

RowPool == [ Comment : CommentPool, Emotion : Range(Emotions) ]

SmallFiles == UNION { [1..n -> RowPool] : n \in 0..MaxRows }

Row(c, e) == [Comment |-> c, Emotion |-> e]

\* files of three to six rows: the test set of the last has two rows
MediumFiles ==
    { << Row(TheCat, "joy"), Row(The, "fear"), Row(HatAC, "anger") >>,
      << Row(HatAC, "joy"), Row(TeaHat, "fear"), Row(TheCat, "joy"),
         Row(TeaHat, "anger") >>,
      << Row(TheCat, "joy"), Row(HatAC, "fear"), Row(TeaHat, "joy"),
         Row(TheCat, "fear"), Row(The, "anger") >>,
      << Row(TheCat, "joy"), Row(HatAC, "fear"), Row(TeaHat, "joy"),
         Row(The, "fear"), Row(HatAC, "joy"), Row(TeaHat, "fear") >> }

Letters == << "a", "c", "e", "h", "t" >>

\* the i-th four-letter word over Letters, i in 0..624
Word(i) == << Letters[((i \div 125) % 5) + 1], Letters[((i \div 25) % 5) + 1],
              Letters[((i \div 5) % 5) + 1], Letters[(i % 5) + 1] >>

\* the four-letter words that are no stopwords, in order
Words == SelectSeq([i \in 1..625 |-> Word(i - 1)], NotStopword)

\* "The " followed by Words[lo..hi] separated by single spaces
Sentence(lo, hi) ==
    << "T","h","e"," " >> \o join(SubSeq(Words, lo, hi))

(***************************************************************************)
(* TfidfVectorizer(max_features=500).fit_transform                         *)
(***************************************************************************)
max_features == 500

\* a file whose comments hold max_features + Extra distinct terms:
\* max_features - 1 four-letter words that occur twice, Extra more that
\* occur once, and "cat", once
LargeFiles ==
    { << Row(Sentence(1, max_features - 1), "joy"),
         Row(Sentence(1, max_features - 1 + Extra), "fear"),
         Row(TheCat, "joy") >> }

\* no file of that name in the working directory
NoFile == [ exists |-> FALSE, rows |-> << >> ]

Files == {NoFile} \cup { [ exists |-> TRUE, rows |-> r ] :
                            r \in SmallFiles \cup MediumFiles \cup LargeFiles }

\* the code points of the Characters that \w matches: the alphanumeric
\* ones and the underscore
word_code_points ==
    (48..57) \cup (65..90) \cup {95} \cup (97..122)
        \cup {178, 201, 233, 304, 931, 962, 963, 1635, 8450}

\* \w of the default token_pattern r"(?u)\b\w\w+\b"
IsWordChar(c) == ord(c) \in word_code_points

IsTerm(w) == Len(w) >= 2

\* build_analyzer(): lowercase, then every run of two or more word characters
tokenize(doc) ==
    LET lowered == lower(doc)
    IN  SelectSeq(Runs(lowered, { i \in 1..Len(lowered) : IsWordChar(lowered[i]) }), IsTerm)

\* number of occurrences of term t in a token list
Count(tokens, t) == Cardinality({ k \in 1..Len(tokens) : tokens[k] = t })

RECURSIVE Sum(_, _)
Sum(f, S) == IF S = {} THEN 0
             ELSE LET x == CHOOSE x \in S : TRUE IN f[x] + Sum(f, S \ {x})

\* the subsets of S with k elements
RECURSIVE KSubsets(_, _)
KSubsets(S, k) ==
    IF k = 0 THEN { {} }
    ELSE IF Cardinality(S) < k THEN {}
    ELSE IF Cardinality(S) = k THEN { S }
    ELSE LET x == CHOOSE x \in S : TRUE
         IN  KSubsets(S \ {x}, k) \cup { T \cup {x} : T \in KSubsets(S \ {x}, k - 1) }

\* _limit_features that never cuts the vocabulary
LimitIgnored(terms, tfs, limit) == { terms }

\* _limit_features: the limit terms of highest corpus frequency,
\* (-tfs).argsort()[:limit]; argsort is not stable, so which of the terms
\* of equal frequency at the cut are kept is any choice
LimitFeatures(terms, tfs, limit) ==
    IF Cardinality(terms) <= limit THEN { terms }
    ELSE LET AtLeast(v) == { t \in terms : tfs[t] >= v }
             cut == CHOOSE v \in { tfs[t] : t \in terms } :
                        /\ Cardinality(AtLeast(v)) >= limit
                        /\ Cardinality(AtLeast(v + 1)) < limit
             above == AtLeast(cut + 1)
             ties == AtLeast(cut) \ above
         IN  { above \cup S : S \in KSubsets(ties, limit - Cardinality(above)) }

\* Python's order on str: u < w
RECURSIVE StrLess(_, _)
StrLess(u, w) ==
    IF w = << >> THEN FALSE
    ELSE IF u = << >> THEN TRUE
    ELSE IF Head(u) = Head(w) THEN StrLess(Tail(u), Tail(w))
    ELSE ord(Head(u)) < ord(Head(w))

\* sorted(S) for a set of str
Sorted(S) ==
    LET rank == Table([ t \in S |-> Cardinality({ u \in S : StrLess(u, t) }) ])
        at == Table([ r \in { rank[t] : t \in S } |-> CHOOSE t \in S : rank[t] = r ])
    IN  Table([ j \in 1..Cardinality(S) |-> at[j - 1] ])

\* line 86: TfidfVectorizer(max_features=500), not fitted
TfidfVectorizer == [ max_features |-> max_features ]

\* the outcomes of fit_transform on the documents docs, none when the
\* vocabulary is empty: [vectorizer, X] with X[i][j] = <<tf, df>>, the number
\* of occurrences of term j in document i and the number of documents that
\* hold term j.  The entry stands for tf * (ln((1 + n) / (1 + df)) + 1)
\* divided by the row's Euclidean norm.
fit_transform(docs) ==
    LET n == Len(docs)
        toks == Table([ i \in 1..n |-> tokenize(docs[i]) ])
        terms == UNION { Range(toks[i]) : i \in 1..n }
        tf == Table([ i \in 1..n |-> Table([ t \in terms |-> Count(toks[i], t) ]) ])
        tfs == Table([ t \in terms |-> Sum([ i \in 1..n |-> tf[i][t] ], 1..n) ])
        df == Table([ t \in terms |-> Cardinality({ i \in 1..n : tf[i][t] > 0 }) ])
        sorted_terms == Sorted(terms)
    IN  IF terms = {} THEN {}
        ELSE { LET names == SelectSeq(sorted_terms, LAMBDA t : t \in kept)
               IN  [ vectorizer |-> [ max_features |-> max_features,
                                      vocabulary_ |-> names,
                                      idf_ |-> Table([ j \in 1..Len(names) |->
                                                         << 1 + n, 1 + df[names[j]] >> ]) ],
                     X |-> Table([ i \in 1..n |-> Table([ j \in 1..Len(names) |->
                                                << tf[i][names[j]], df[names[j]] >> ]) ]) ]
               : kept \in LimitFeatures(terms, tfs, max_features) }

(***************************************************************************)
(* train_test_split(X, y, test_size=0.2, random_state=42)                  *)
(***************************************************************************)
\* ceil(test_size * n_samples) for test_size = 0.2
n_test(n) == (n + 4) \div 5

\* the orders rng.permutation(n) can return: sequences of 0..n-1
rng_permutation(n) ==
    { p \in [1..n -> 0..(n - 1)] : \A i, j \in 1..n : i # j => p[i] # p[j] }

\* _safe_indexing of an ndarray with positions idx
TakeRows(M, idx) == [ k \in 1..Len(idx) |-> M[idx[k] + 1] ]

\* a Series selection that takes the leading values whatever the positions
TakeSeriesUnpaired(S, idx) ==
    [ index |-> idx, values |-> [ k \in 1..Len(idx) |-> S.values[k] ] ]

\* Series.iloc[idx]: the index labels travel with the values
TakeSeries(S, idx) ==
    [ index |-> [ k \in 1..Len(idx) |-> S.index[idx[k] + 1] ],
      values |-> [ k \in 1..Len(idx) |-> S.values[idx[k] + 1] ] ]

(***************************************************************************)
(* The estimators.  predict returns classes_[argmax of the decision        *)
(* function]; the decision function is real arithmetic on the TF-IDF       *)
(* weights and is left open: a prediction is any member of classes_.       *)
(***************************************************************************)
\* np.unique(y): the labels of y in sorted order
unique(values) == SelectSeq(Emotions, LAMBDA e : e \in Range(values))

\* line 125: MultinomialNB(), not fitted
MultinomialNB == [ alpha |-> 1 ]

\* line 126: nb_model.fit(X, y)
MultinomialNB_fit(Xs, ys) ==
    LET classes == unique(ys.values)
    IN  [ alpha |-> 1,
          classes_ |-> classes,
          class_count_ |-> [ k \in 1..Len(classes) |-> Count(ys.values, classes[k]) ],
          n_features_in_ |-> Len(Xs[1]) ]

\* line 129: SVC(kernel='linear'), not fitted
SVC == [ kernel |-> "linear" ]

\* line 130: svm_model.fit(X, y), given at least two classes
SVC_fit(Xs, ys) ==
    [ kernel |-> "linear",
      classes_ |-> unique(ys.values),
      shape_fit_ |-> << Len(Xs), Len(Xs[1]) >> ]

\* predict that may answer any emotion, seen in training or not
predict_any_emotion(model, Xs) == [ 1..Len(Xs) -> Range(Emotions) ]

\* model.predict(Xs): one label of classes_ per row of Xs
predict(model, Xs) == [ 1..Len(Xs) -> Range(model.classes_) ]

(***************************************************************************)
(* sklearn.metrics, as exact fractions <<numerator, denominator>> in       *)
(* lowest terms.                                                           *)
(***************************************************************************)
RECURSIVE gcd(_, _)
gcd(a, b) == IF b = 0 THEN a ELSE gcd(b, a % b)

Fraction(a, b) == LET g == gcd(a, b) IN << a \div g, b \div g >>

\* accuracy_score(y_true, y_pred)
accuracy_score(y_true, y_pred) ==
    Fraction(Cardinality({ k \in 1..Len(y_true) : y_true[k] = y_pred[k] }), Len(y_true))

RECURSIVE Product(_, _)
Product(f, S) == IF S = {} THEN 1
                 ELSE LET x == CHOOSE x \in S : TRUE IN f[x] * Product(f, S \ {x})

\* f1_score(y_true, y_pred, average='weighted'): the per-label F1
\* 2 tp / (true + pred) averaged with the label's support as weight
f1_score(y_true, y_pred) ==
    LET labels == Range(y_true) \cup Range(y_pred)
        true_sum == [ c \in labels |-> Count(y_true, c) ]
        pred_sum == [ c \in labels |-> Count(y_pred, c) ]
        tp_sum == [ c \in labels |->
                      Cardinality({ k \in 1..Len(y_true) : y_true[k] = c /\ y_pred[k] = c }) ]
        den == [ c \in labels |-> true_sum[c] + pred_sum[c] ]
        D == Product(den, labels)
        num == [ c \in labels |-> true_sum[c] * 2 * tp_sum[c] * (D \div den[c]) ]
    IN  Fraction(Sum(num, labels), D * Len(y_true))

(***************************************************************************)
(* The run: the notebook's statements in cell order.                       *)
(***************************************************************************)
Program == << "read_csv", "apply_preprocess", "fit_transform", "extract_labels",
              "train_test_split", "fit_nb", "fit_svm", "evaluate_nb",
              "evaluate_svm", "print_nb", "print_svm" >>

Position(stmt) == CHOOSE i \in 1..Len(Program) : Program[i] = stmt

\* control that goes back to fitting after the SVM has been scored
SuccessorRetry(stmt) ==
    IF stmt = "evaluate_svm" THEN "fit_nb"
    ELSE IF Position(stmt) = Len(Program) THEN "done"
    ELSE Program[Position(stmt) + 1]

\* the statement that follows stmt: the next one in cell order
Successor(stmt) ==
    IF Position(stmt) = Len(Program) THEN "done" ELSE Program[Position(stmt) + 1]

\* the statement at pc completes
Advance ==
    /\ pc' = Successor(pc)
    /\ trace' = Append(trace, pc)
    /\ err' = err

output == << stdout, stderr, iopub >>

\* the traceback of the uncaught exception e, as one write: its lines end
\* with the line that names e
Traceback(e) == << "Traceback (most recent call last):", e >>

\* an exception handler that swallows e and lets the run go on
RaiseCaught(e) ==
    /\ pc' = Successor(pc)
    /\ trace' = Append(trace, pc)
    /\ err' = err
    /\ UNCHANGED output

\* the statement at pc raises e; nothing catches it and the run ends.  A
\* terminal front end writes the traceback to sys.stdout, a kernel
\* publishes it as an error, and the interpreter that runs the cells as a
\* script writes it to sys.stderr
Raise(e) ==
    /\ pc' = "stopped"
    /\ trace' = Append(trace, pc)
    /\ err' = e
    /\ CASE front_end = "terminal" ->
               stdout' = Append(stdout, Traceback(e)) /\ UNCHANGED << stderr, iopub >>
         [] front_end = "kernel" ->
               /\ iopub' = Append(iopub, [ output_type |-> "error", ename |-> e ])
               /\ UNCHANGED << stdout, stderr >>
         [] front_end = "script" ->
               stderr' = Append(stderr, Traceback(e)) /\ UNCHANGED << stdout, iopub >>

\* the value of the last expression of a cell, the third code cell, is
\* displayed: a terminal front end writes it to sys.stdout, a kernel
\* publishes it as the cell's execute_result, a script shows nothing
Display(value) ==
    CASE front_end = "terminal" ->
             stdout' = Append(stdout, << "Out[3]:", value >>) /\ UNCHANGED << stderr, iopub >>
      [] front_end = "kernel" ->
             /\ iopub' = Append(iopub, [ output_type |-> "execute_result", data |-> value ])
             /\ UNCHANGED << stdout, stderr >>
      [] front_end = "script" -> UNCHANGED output

frame == << dataset, tfidf_vectorizer, X, y >>
split_vars == << X_train, X_test, y_train, y_test >>
models == << nb_model, svm_model >>
nb_scores == << nb_predictions, nb_accuracy, nb_f1 >>
svm_scores == << svm_predictions, svm_accuracy, svm_f1 >>
call_vars == << text, result >>

\* line 47: dataset = pd.read_csv('nlp_dataset.csv')
ReadCsv ==
    /\ pc = "read_csv"
    /\ IF ~file.exists
       THEN Raise("FileNotFoundError") /\ UNCHANGED dataset
       ELSE Advance /\ dataset' = file.rows /\ UNCHANGED output
    /\ UNCHANGED << file, front_end, tfidf_vectorizer, X, y, split_vars, models,
                    nb_scores, svm_scores, call_vars >>

\* line 58: dataset['Processed_Comment'] = dataset['Comment'].apply(preprocess_text)
\* text.lower() raises AttributeError on a float
ApplyPreprocess ==
    /\ pc = "apply_preprocess"
    /\ IF \E i \in 1..Len(dataset) : dataset[i].Comment = NaN
       THEN Raise("AttributeError") /\ UNCHANGED dataset
       ELSE /\ Advance
            /\ UNCHANGED output
            /\ dataset' = [ i \in 1..Len(dataset) |->
                              [ Comment |-> dataset[i].Comment,
                                Emotion |-> dataset[i].Emotion,
                                Processed_Comment |-> preprocess_text(dataset[i].Comment) ] ]
    /\ UNCHANGED << file, front_end, tfidf_vectorizer, X, y, split_vars, models,
                    nb_scores, svm_scores, call_vars >>

\* a column selection that leaves out the rows whose processed comment is empty
ProcessedCommentsNonEmpty(ds) ==
    SelectSeq([ i \in 1..Len(ds) |-> ds[i].Processed_Comment ], LAMBDA d : d # << >>)

\* dataset['Processed_Comment']: the column, one document per row
ProcessedComments(ds) == [ i \in 1..Len(ds) |-> ds[i].Processed_Comment ]

\* lines 86-89: tfidf_vectorizer = TfidfVectorizer(max_features=500), then
\* X = tfidf_vectorizer.fit_transform(...).toarray(), which raises
\* ValueError("empty vocabulary") when no document holds a term and leaves
\* the vectorizer unfitted
FitTransform ==
    /\ pc = "fit_transform"
    /\ LET outcomes == fit_transform(ProcessedComments(dataset))
       IN  IF outcomes = {}
           THEN /\ Raise("ValueError")
                /\ tfidf_vectorizer' = TfidfVectorizer
                /\ UNCHANGED X
           ELSE \E o \in outcomes :
                    /\ Advance
                    /\ UNCHANGED output
                    /\ tfidf_vectorizer' = o.vectorizer
                    /\ X' = o.X
    /\ UNCHANGED << file, front_end, dataset, y, split_vars, models,
                    nb_scores, svm_scores, call_vars >>

\* line 92: y = dataset['Emotion'], a Series over the RangeIndex 0..n-1
ExtractLabels ==
    /\ pc = "extract_labels"
    /\ Advance
    /\ y' = [ index |-> [ i \in 1..Len(dataset) |-> i - 1 ],
              values |-> [ i \in 1..Len(dataset) |-> dataset[i].Emotion ] ]
    /\ UNCHANGED << file, front_end, dataset, tfidf_vectorizer, X, split_vars, models,
                    nb_scores, svm_scores, output, call_vars >>

\* line 122: the first n_test positions of the permutation are the test
\* set, the others the training set; an empty training set is a ValueError
TrainTestSplit ==
    /\ pc = "train_test_split"
    /\ LET n == Len(X)
           nt == n_test(n)
       IN  IF n - nt = 0
           THEN Raise("ValueError") /\ UNCHANGED split_vars
           ELSE \E perm \in rng_permutation(n) :
                    LET test == SubSeq(perm, 1, nt)
                        train == SubSeq(perm, nt + 1, n)
                    IN  /\ Advance
                        /\ UNCHANGED output
                        /\ X_train' = TakeRows(X, train)
                        /\ X_test' = TakeRows(X, test)
                        /\ y_train' = TakeSeries(y, train)
                        /\ y_test' = TakeSeries(y, test)
    /\ UNCHANGED << file, front_end, frame, models, nb_scores, svm_scores, call_vars >>

\* lines 125-126: nb_model = MultinomialNB(), then nb_model.fit(...)
FitNB ==
    /\ pc = "fit_nb"
    /\ Advance
    /\ nb_model' = MultinomialNB_fit(X_train, y_train)
    /\ UNCHANGED << file, front_end, frame, split_vars, svm_model, nb_scores, svm_scores,
                    output, call_vars >>

\* lines 129-130: svm_model = SVC(kernel='linear'), then svm_model.fit(...),
\* which raises ValueError when y_train holds a single class and leaves the
\* estimator unfitted.  The call is the last expression of cell 4de4a70d
\* and fit returns the estimator, which the front end displays.
FitSVM ==
    /\ pc = "fit_svm"
    /\ IF Len(unique(y_train.values)) < 2
       THEN /\ Raise("ValueError")
            /\ svm_model' = SVC
       ELSE /\ Advance
            /\ svm_model' = SVC_fit(X_train, y_train)
            /\ Display(svm_model')
    /\ UNCHANGED << file, front_end, frame, split_vars, nb_model, nb_scores, svm_scores,
                    call_vars >>

\* lines 158-160
EvaluateNB ==
    /\ pc = "evaluate_nb"
    /\ \E predictions \in predict(nb_model, X_test) :
           /\ nb_predictions' = predictions
           /\ nb_accuracy' = accuracy_score(y_test.values, predictions)
           /\ nb_f1' = f1_score(y_test.values, predictions)
    /\ Advance
    /\ UNCHANGED << file, front_end, frame, split_vars, models, svm_scores, output, call_vars >>

\* lines 163-165
EvaluateSVM ==
    /\ pc = "evaluate_svm"
    /\ \E predictions \in predict(svm_model, X_test) :
           /\ svm_predictions' = predictions
           /\ svm_accuracy' = accuracy_score(y_test.values, predictions)
           /\ svm_f1' = f1_score(y_test.values, predictions)
    /\ Advance
    /\ UNCHANGED << file, front_end, frame, split_vars, models, nb_scores, output, call_vars >>

\* the SVM line printed with the Naive Bayes figures
SvmLineFromNb == << "SVM - Accuracy:", nb_accuracy, "F1-Score:", nb_f1 >>

\* the arguments of the print of line 168; print writes them separated by
\* single spaces as one line
NbLine == << "Naive Bayes - Accuracy:", nb_accuracy, "F1-Score:", nb_f1 >>

\* the arguments of the print of line 169
SvmLine == << "SVM - Accuracy:", svm_accuracy, "F1-Score:", svm_f1 >>

\* line 168
PrintNB ==
    /\ pc = "print_nb"
    /\ Advance
    /\ stdout' = Append(stdout, NbLine)
    /\ UNCHANGED << file, front_end, frame, split_vars, models, nb_scores, svm_scores,
                    stderr, iopub, call_vars >>

\* line 169
PrintSVM ==
    /\ pc = "print_svm"
    /\ Advance
    /\ stdout' = Append(stdout, SvmLine)
    /\ UNCHANGED << file, front_end, frame, split_vars, models, nb_scores, svm_scores,
                    stderr, iopub, call_vars >>

Init ==
    /\ pc = "read_csv"
    /\ front_end \in {"kernel", "terminal", "script"}
    /\ file \in Files
    /\ dataset = None /\ tfidf_vectorizer = None /\ X = None /\ y = None
    /\ X_train = None /\ X_test = None /\ y_train = None /\ y_test = None
    /\ nb_model = None /\ svm_model = None
    /\ nb_predictions = None /\ nb_accuracy = None /\ nb_f1 = None
    /\ svm_predictions = None /\ svm_accuracy = None /\ svm_f1 = None
    /\ stdout = << >> /\ stderr = << >> /\ iopub = << >>
    /\ err = None
    /\ trace = << >>
    /\ text = None /\ result = None

Next ==
    \/ ReadCsv
    \/ ApplyPreprocess
    \/ FitTransform
    \/ ExtractLabels
    \/ TrainTestSplit
    \/ FitNB
    \/ FitSVM
    \/ EvaluateNB
    \/ EvaluateSVM
    \/ PrintNB
    \/ PrintSVM

Spec == Init /\ [][Next]_vars

(***************************************************************************)
(* A single call of preprocess_text on every text of at most MaxLen        *)
(* characters of Alphabet.                                                 *)
(***************************************************************************)
Texts == UNION { [1..n -> Alphabet] : n \in 0..MaxLen }

CallInit ==
    /\ pc = "call"
    /\ front_end = "script"
    /\ text \in Texts
    /\ result = None
    /\ file = NoFile
    /\ dataset = None /\ tfidf_vectorizer = None /\ X = None /\ y = None
    /\ X_train = None /\ X_test = None /\ y_train = None /\ y_test = None
    /\ nb_model = None /\ svm_model = None
    /\ nb_predictions = None /\ nb_accuracy = None /\ nb_f1 = None
    /\ svm_predictions = None /\ svm_accuracy = None /\ svm_f1 = None
    /\ stdout = << >> /\ stderr = << >> /\ iopub = << >>
    /\ err = None
    /\ trace = << >>

\* lines 50-55: one call returns
Call ==
    /\ pc = "call"
    /\ pc' = "return"
    /\ result' = preprocess_text(text)
    /\ UNCHANGED << file, front_end, frame, split_vars, models, nb_scores, svm_scores,
                    output, err, trace, text >>

CallNext == Call

CallSpec == CallInit /\ [][CallNext]_vars

(***************************************************************************)
(* Properties.                                                             *)
(***************************************************************************)
\* statement stmt has run and has not raised
Completed(stmt) ==
    \E i \in 1..Len(trace) : trace[i] = stmt /\ (i < Len(trace) \/ pc # "stopped")

Min(a, b) == IF a <= b THEN a ELSE b

\* the words of row i's comment as preprocess_text leaves them
CleanWords(i) == Range(split(preprocess_text(file.rows[i].Comment)))

\* C1: after feature extraction X has exactly one row per row of the loaded
\* file, in file order (row i of X counts the terms of comment i and of no
\* other), and y holds the label of each row in the same order, so
\* rows(X) = len(y) = n.
C1_OneFeatureRowPerInputRow ==
    Completed("extract_labels") =>
        /\ Len(X) = Len(file.rows)
        /\ Len(y.values) = Len(X)
        /\ \A i \in 1..Len(file.rows) :
               /\ y.values[i] = file.rows[i].Emotion
               /\ y.index[i] = i - 1
               /\ LET words == CleanWords(i)
                  IN  \A j \in 1..Len(X[i]) :
                          X[i][j][1] > 0 <=> tfidf_vectorizer.vocabulary_[j] \in words

\* a three-row file whose second comment holds stopwords only has been
\* vectorized: the all-zero row is kept between two rows that differ
C1_Witness ==
    /\ Completed("extract_labels")
    /\ Len(X) = 3
    /\ file.rows[2].Comment = The
    /\ X[1] # X[3]
    /\ \A j \in 1..Len(X[2]) : X[2][j][1] = 0

\* C2: each model yields one predicted label per test row,
\* len(predictions) = len(y_test) = rows(X_test), and every predicted label
\* occurs in y_train.
C2_PredictionsMatchTestSet ==
    /\ Completed("evaluate_nb") =>
           /\ Len(nb_predictions) = Len(y_test.values)
           /\ Len(nb_predictions) = Len(X_test)
           /\ \A k \in 1..Len(nb_predictions) : nb_predictions[k] \in Range(y_train.values)
    /\ Completed("evaluate_svm") =>
           /\ Len(svm_predictions) = Len(y_test.values)
           /\ Len(svm_predictions) = Len(X_test)
           /\ Len(svm_predictions) = Len(nb_predictions)
           /\ \A k \in 1..Len(svm_predictions) : svm_predictions[k] \in Range(y_train.values)

\* both models have predicted for a test row whose true label is absent
\* from the training labels
C2_Witness ==
    /\ Completed("evaluate_svm")
    /\ \E k \in 1..Len(y_test.values) : y_test.values[k] \notin Range(y_train.values)

\* the lines of sys.stdout that a print statement wrote
Printed ==
    SelectSeq(stdout, LAMBDA line :
                  line[1] \notin {"Out[3]:", "Traceback (most recent call last):"})

\* the two printed lines are the Naive Bayes line followed by the SVM line,
\* each with the accuracy and weighted F1 of y_test against that model's own
\* predictions, and nothing is printed before both models are fitted and
\* scored
ResultLines ==
    /\ Len(Printed) <= 2
    /\ Len(Printed) >= 1 =>
           /\ Completed("fit_nb") /\ Completed("fit_svm")
           /\ Completed("evaluate_nb") /\ Completed("evaluate_svm")
           /\ Printed[1] = << "Naive Bayes - Accuracy:",
                              accuracy_score(y_test.values, nb_predictions),
                              "F1-Score:", f1_score(y_test.values, nb_predictions) >>
    /\ Len(Printed) = 2 =>
           Printed[2] = << "SVM - Accuracy:",
                           accuracy_score(y_test.values, svm_predictions),
                           "F1-Score:", f1_score(y_test.values, svm_predictions) >>
    /\ pc = "done" => Len(Printed) = 2

\* C3 as stated: the result lines are as described and a completed run has
\* written exactly the two lines to the console and nothing else.
C3_Original ==
    /\ ResultLines
    /\ pc = "done" => Len(stdout) = 2

\* C3, amended: a completed run has printed exactly two lines, the Naive
\* Bayes line and then the SVM line, each with that model's accuracy and
\* weighted F1 on the same test set, neither before both models were fitted
\* and scored.  The only other output of a run is the fitted SVC, the value
\* of the last expression of the fitting cell: it is shown at most once,
\* after the SVM is fitted and before the two lines, as the cell's result
\* or, by a terminal front end, as one more line of the console.
C3_TwoResultLines ==
    /\ ResultLines
    /\ pc # "stopped" =>
           /\ stderr = << >>
           /\ Len(stdout) - Len(Printed) + Len(iopub) <= 1
           /\ Len(stdout) > Len(Printed) =>
                  /\ Completed("fit_svm")
                  /\ front_end = "terminal"
                  /\ stdout[1] = << "Out[3]:", svm_model >>
           /\ Len(iopub) = 1 =>
                  /\ Completed("fit_svm")
                  /\ front_end = "kernel"
                  /\ iopub[1] = [ output_type |-> "execute_result", data |-> svm_model ]
           /\ (pc = "done" /\ front_end = "script") => Len(stdout) = 2

\* a completed run at a terminal front end: the console holds the fitted
\* SVC and then the two lines, which report different figures
C3_Witness ==
    /\ pc = "done"
    /\ Len(stdout) = 3
    /\ stdout[1][1] = "Out[3]:"
    /\ stdout[2][2] # stdout[3][2]
    /\ stdout[2][4] # stdout[3][4]

\* C4: the statements run in cell order, each at most once: the statements
\* executed so far are an initial part of the program, the next one is the
\* one that follows them, and a run is done only after all of them.
C4_LinearSequence ==
    /\ Len(trace) <= Len(Program)
    /\ \A i \in 1..Len(trace) : trace[i] = Program[i]
    /\ pc \notin {"stopped", "done"} => pc = Program[Len(trace) + 1]
    /\ pc = "done" => trace = Program

\* a run that executed every statement once and is done
C4_Witness == pc = "done" /\ trace = Program /\ err = None

\* C5: a failure is not caught.  A missing file stops the run at read_csv,
\* a non-string comment at the preprocessing statement; a stopped run holds
\* the exception, can take no further step, ends at the failing statement
\* and has printed no result line: its only output is the traceback of the
\* exception, where the front end puts it; a finished run has printed both
\* result lines or none.
C5_FailureStopsRun ==
    /\ (~file.exists /\ trace # << >>) =>
           trace = << "read_csv" >> /\ err = "FileNotFoundError"
    /\ (file.exists /\ (\E i \in 1..Len(file.rows) : file.rows[i].Comment = NaN)
          /\ Len(trace) >= 2) =>
           trace = << "read_csv", "apply_preprocess" >> /\ err = "AttributeError"
    /\ err # None <=> pc = "stopped"
    /\ pc = "stopped" =>
           /\ Printed = << >>
           /\ front_end = "terminal" =>
                  stdout = << Traceback(err) >> /\ stderr = << >> /\ iopub = << >>
           /\ front_end = "kernel" =>
                  /\ iopub = << [ output_type |-> "error", ename |-> err ] >>
                  /\ stdout = << >> /\ stderr = << >>
           /\ front_end = "script" =>
                  stderr = << Traceback(err) >> /\ stdout = << >> /\ iopub = << >>
           /\ ~ENABLED Next
           /\ trace # << >> /\ trace[Len(trace)] \in
                  {"read_csv", "apply_preprocess", "fit_transform",
                   "train_test_split", "fit_svm"}
    /\ pc \in {"stopped", "done"} => Len(Printed) \in {0, 2}

\* a run at a terminal front end stopped by the AttributeError of a
\* non-string comment in a row after the first
C5_Witness ==
    /\ pc = "stopped"
    /\ front_end = "terminal"
    /\ stdout = << Traceback("AttributeError") >>
    /\ err = "AttributeError"
    /\ Len(file.rows) >= 2
    /\ file.rows[1].Comment # NaN

\* the words of s with no character left, dropped
NonEmptyWords(ws) == SelectSeq(ws, LAMBDA w : w # << >>)

\* the result the claim describes: the whitespace-separated words of the
\* input, each lowercased and stripped of punctuation, the stopwords (and
\* the words nothing is left of) removed, joined by single spaces
Described(t) ==
    LET ws == split(t)
        cleaned == [ k \in 1..Len(ws) |-> translate(lower(ws[k])) ]
    IN  join(RemoveStopwords(NonEmptyWords(cleaned)))

\* the shape the claim gives the result, but for its letters' case
WellFormed(r) ==
    /\ \A i \in 1..Len(r) : r[i] \notin string_punctuation
    /\ \A i \in 1..Len(r) : isspace(r[i]) => r[i] = " "
    /\ r # << >> => r[1] # " " /\ r[Len(r)] # " "
    /\ \A i \in 1..(Len(r) - 1) : ~(r[i] = " " /\ r[i + 1] = " ")
    /\ \A w \in Range(split(r)) : NotStopword(w)

\* C6 as stated: the result is the described string, contains no uppercase
\* letter, no punctuation, no stopword token and no leading, trailing or
\* doubled space.
C6_Original ==
    pc = "return" =>
        /\ result = Described(text)
        /\ WellFormed(result)
        /\ \A i \in 1..Len(result) : ~isupper(result[i])

\* C6, amended: the result is the described string, contains no punctuation,
\* no stopword token, no leading, trailing or doubled space, and no
\* character that str.lower() changes (so no uppercase letter A-Z); an
\* uppercase letter without a lowercase form, such as U+2102, stays.
C6_PreprocessResult ==
    pc = "return" =>
        /\ result = Described(text)
        /\ WellFormed(result)
        /\ \A i \in 1..Len(result) : lower(<< result[i] >>) = << result[i] >>
        /\ \A i \in 1..Len(result) :
               isupper(result[i]) => \E k \in 1..Len(text) : text[k] = result[i]

\* the call on 't.h.e' has returned the empty string: the stopword was
\* recognised after the punctuation was removed
C6_Witness ==
    /\ pc = "return"
    /\ text = << "t", ".", "h", ".", "e" >>
    /\ result = << >>

\* the distinct terms of the processed comments: the tokens of two or more
\* word characters
DistinctTerms ==
    UNION { Range(tokenize(dataset[i].Processed_Comment)) : i \in 1..Len(dataset) }

\* the distinct whitespace-separated words of the processed comments
DistinctWords == UNION { CleanWords(i) : i \in 1..Len(dataset) }

\* every row of the three matrices has cols columns
ColumnCount(cols) ==
    /\ \A i \in 1..Len(X) : Len(X[i]) = cols
    /\ Completed("train_test_split") =>
           /\ \A k \in 1..Len(X_train) : Len(X_train[k]) = cols
           /\ \A k \in 1..Len(X_test) : Len(X_test[k]) = cols

\* C7 as stated, a term read as a word of a processed comment: X has
\* min(500, number of distinct words) columns, and so have X_train and X_test.
C7_Original ==
    Completed("fit_transform") =>
        ColumnCount(Min(max_features, Cardinality(DistinctWords)))

\* C7, amended: X has min(500, number of distinct tokens of two or more
\* word characters in the processed comments) columns, never more than 500,
\* and X_train and X_test have the same number of columns; a word of one
\* character is no term.
C7_FeatureCountCapped ==
    Completed("fit_transform") =>
        LET terms == DistinctTerms
            cols == Min(max_features, Cardinality(terms))
        IN  /\ ColumnCount(cols)
            /\ cols <= max_features
            /\ Len(tfidf_vectorizer.vocabulary_) = cols
            /\ Range(tfidf_vectorizer.vocabulary_) \subseteq terms

\* a file with more than max_features distinct terms has been vectorized
\* and split: the matrices have max_features columns
C7_Witness ==
    /\ Completed("train_test_split")
    /\ Cardinality(DistinctTerms) > max_features
    /\ Len(X_train[1]) = max_features
    /\ Len(X_test[1]) = max_features

\* C8: the split puts every row position in exactly one of the two sets,
\* ceil(0.2 n) of them in the test set; each feature row stays with its own
\* label; both models are fitted on the training set and scored on the
\* test set.
C8_SplitPartitionsRows ==
    Completed("train_test_split") =>
        LET n == Len(X)
            train == y_train.index
            test == y_test.index
        IN  /\ Range(train) \cup Range(test) = 0..(n - 1)
            /\ Len(train) + Len(test) = n
            /\ 5 * Len(test) >= n /\ 5 * (Len(test) - 1) < n
            /\ Len(X_train) = Len(train) /\ Len(y_train.values) = Len(train)
            /\ Len(X_test) = Len(test) /\ Len(y_test.values) = Len(test)
            /\ \A k \in 1..Len(train) :
                   /\ X_train[k] = X[train[k] + 1]
                   /\ y_train.values[k] = y.values[train[k] + 1]
            /\ \A k \in 1..Len(test) :
                   /\ X_test[k] = X[test[k] + 1]
                   /\ y_test.values[k] = y.values[test[k] + 1]
            /\ Completed("fit_nb") =>
                   /\ Range(nb_model.classes_) = { y.values[i + 1] : i \in Range(train) }
                   /\ \A c \in 1..Len(nb_model.classes_) :
                          nb_model.class_count_[c] =
                              Cardinality({ i \in Range(train) :
                                              y.values[i + 1] = nb_model.classes_[c] })
            /\ Completed("fit_svm") =>
                   /\ svm_model.classes_ = nb_model.classes_
                   /\ svm_model.shape_fit_[1] = Len(train)
            /\ Completed("evaluate_svm") =>
                   /\ Len(nb_predictions) = Len(test)
                   /\ Len(svm_predictions) = Len(test)
                   /\ nb_accuracy = accuracy_score([ k \in 1..Len(test) |-> y.values[test[k] + 1] ],
                                                   nb_predictions)
                   /\ svm_accuracy = accuracy_score([ k \in 1..Len(test) |-> y.values[test[k] + 1] ],
                                                    svm_predictions)

\* six rows have been split into a shuffled test set of two rows and a
\* training set of four, and both models have been scored
C8_Witness ==
    /\ Completed("evaluate_svm")
    /\ Len(X) = 6
    /\ Len(y_test.index) = 2
    /\ y_test.index[1] > y_test.index[2]
    /\ y_train.index # << 0, 1, 2, 3 >>

====
